---- MODULE Spec2Model ----
(***************************************************************************)
(* A model of miniast: the node algebra and builders of miniast/base.py    *)
(* and the unparser of miniast/source.py.                                  *)
(*                                                                         *)
(* Every Python value is a record with a field `cls` holding             *)
(* type(value).__name__.  AST nodes carry their _fields; raw host values   *)
(* carry `v` (scalars) or `items` (containers, in iteration order).  A     *)
(* raised exception is a record with a field `err` (the exception class)   *)
(* and `msg`.  A rendered text is [lines |-> <<l1, ..., ln>>], the text    *)
(* l1 \n l2 \n ... \n ln.                                                  *)
(***************************************************************************)
EXTENDS Integers, Sequences, FiniteSets, TLC

VARIABLES
    stages,   \* heap of Try builder objects (base.py 689-785), by creation order
    hist,     \* ghost: for each Try builder object, the builder calls that made it
    nodes,    \* heap of expression nodes built through the operator overloads
    made,     \* ghost: for each expression node, the operation that returned it
    val,      \* the host value handed to to_node / the tree handed to sourcify
    ret       \* what the last call returned or raised

vars == <<stages, hist, nodes, made, val, ret>>

(***************************************************************************)
(* Bounds of the model.                                                    *)
(***************************************************************************)
MaxLen == 2       \* longest container literal handed to to_node
MaxStages == 9    \* Try builder objects of one chain
MaxForked == 4    \* Try builder objects when stages are derived from any stage
MaxNodes == 6     \* expression nodes alive at once
MaxDecorated == 2 \* times a function definition is decorated anew
MaxElse == 2      \* else_ calls made on the If statements of one if_
MaxAssembled == 5 \* Try builder objects of a chain that is assembled as it grows

(***************************************************************************)
(* Generic helpers.                                                        *)
(***************************************************************************)
Range(s) == {s[i] : i \in DOMAIN s}

SeqsUpTo(S, n) == UNION {[1..k -> S] : k \in 0..n}

IsErr(x) == "err" \in DOMAIN x

NoneValue == [cls |-> "NoneType"]

\* The first exception raised while evaluating the elements left to right, or
\* the sequence itself when none raised.
FirstErr(s) ==
    IF \E i \in DOMAIN s : IsErr(s[i])
    THEN s[CHOOSE i \in DOMAIN s : IsErr(s[i]) /\ \A j \in 1..(i-1) : ~IsErr(s[j])]
    ELSE [seq |-> s]

(***************************************************************************)
(* Text: str.format, str.join and indent over texts held as lines.         *)
(***************************************************************************)
T(s) == [lines |-> <<s>>]

NL == [lines |-> <<"", "">>]

\* a + b on texts; an exception raised while computing a (then b) propagates
Cat(a, b) ==
    IF IsErr(a) THEN a
    ELSE IF IsErr(b) THEN b
    ELSE [lines |-> SubSeq(a.lines, 1, Len(a.lines) - 1)
                    \o <<a.lines[Len(a.lines)] \o b.lines[1]>>
                    \o Tail(b.lines)]

RECURSIVE CatAll(_)
CatAll(ts) == IF ts = <<>> THEN T("") ELSE Cat(Head(ts), CatAll(Tail(ts)))

\* sep.join(ts)
RECURSIVE Join(_, _)
Join(sep, ts) ==
    IF ts = <<>> THEN T("")
    ELSE IF Len(ts) = 1 THEN Head(ts)
    ELSE Cat(Head(ts), Cat(sep, Join(sep, Tail(ts))))

\* miniast.util.indent: every non-empty line gets a four-space prefix
Indent(t) ==
    IF IsErr(t) THEN t
    ELSE [lines |-> [i \in DOMAIN t.lines |->
                        IF t.lines[i] = "" THEN "" ELSE "    " \o t.lines[i]]]

(***************************************************************************)
(* Host values and the coercion layer (base.py 277-300).                   *)
(***************************************************************************)
PyStr(s) == [cls |-> "str", v |-> s]
PyInt(i) == [cls |-> "int", v |-> i]
PyFloat(r) == [cls |-> "float", v |-> r]       \* v is str(value)
PyList(items) == [cls |-> "list", items |-> items]
PyTuple(items) == [cls |-> "tuple", items |-> items]
PySet(items) == [cls |-> "set", items |-> items]      \* iteration order
PyDict(items) == [cls |-> "dict", items |-> items]    \* <<key, value>> pairs
PyBytes == [cls |-> "bytes", v |-> "b"]

\* type names of host values that are not ast.AST instances
HostTypes == {"NoneType", "str", "int", "float", "list", "tuple", "set",
              "dict", "bytes", "object"}

\* isinstance(value, ast.AST)
IsAST(value) == ~IsErr(value) /\ value.cls \notin HostTypes

\* mutant of to_node_of_None: None is folded into the NONE constant
to_node_None(value) == [cls |-> "NameConstant", value |-> "None"]

\* the assert of base.py 292-295
to_node_assert(value) ==
    [err |-> "AssertionError",
     msg |-> "value must be None or AST instance, got " \o value.cls]

\* base.py 292-296 for value None: the assert passes and the value is returned
to_node_of_None(value) == value

RECURSIVE to_node(_)
to_node(value) ==
    IF value.cls = "str" THEN [cls |-> "Str", s |-> value.v]
    ELSE IF value.cls \in {"int", "float"} THEN [cls |-> "Num", n |-> value]
    ELSE IF value.cls = "list" THEN
        LET elts == FirstErr([i \in DOMAIN value.items |-> to_node(value.items[i])])
        IN  IF IsErr(elts) THEN elts
            ELSE [cls |-> "List", elts |-> elts.seq, ctx |-> "Load"]
    ELSE IF value.cls = "tuple" THEN
        LET elts == FirstErr([i \in DOMAIN value.items |-> to_node(value.items[i])])
        IN  IF IsErr(elts) THEN elts
            ELSE [cls |-> "Tuple", elts |-> elts.seq, ctx |-> "Load"]
    ELSE IF value.cls = "dict" THEN
        LET keys == FirstErr([i \in DOMAIN value.items |-> to_node(value.items[i][1])])
            values == FirstErr([i \in DOMAIN value.items |-> to_node(value.items[i][2])])
        IN  IF IsErr(keys) THEN keys
            ELSE IF IsErr(values) THEN values
            ELSE [cls |-> "Dict", keys |-> keys.seq, values |-> values.seq]
    ELSE IF value.cls = "set" THEN
        LET elts == FirstErr([i \in DOMAIN value.items |-> to_node(value.items[i])])
        IN  IF IsErr(elts) THEN elts
            ELSE [cls |-> "Set", elts |-> elts.seq]
    ELSE IF value.cls = "NoneType" THEN to_node_of_None(value)
    ELSE IF IsAST(value) THEN value
    ELSE to_node_assert(value)

\* base.py 299-300; ast.stmt subclasses of the model
StmtTypes == {"Pass", "Return", "Assign", "AugAssign", "If", "While", "For",
              "FunctionDef", "ClassDef", "Import", "ImportFrom", "Raise",
              "Expr", "Try", "TryWithExcept", "TryWithElse", "TryWithFinally"}

to_expr(value) ==
    IF value.cls \in StmtTypes THEN value ELSE [cls |-> "Expr", value |-> value]

(***************************************************************************)
(* Lazy assembly of the Try builder chain (base.py 702-777).               *)
(***************************************************************************)
RECURSIVE assemble(_)

Try_assemble(self) ==
    [cls |-> "Try", body |-> self.body, handlers |-> <<>>, orelse |-> <<>>,
     finalbody |-> <<>>]

TrySuiteSetup_assemble(self) == assemble(stages[self.parent])

\* mutant of TryWithExcept_assemble: the handler is put in front
TryWithExcept_assemble_prepend(self) ==
    LET try_ == assemble(stages[self.parent])
        handler == [cls |-> "ExceptHandler",
                    type |-> stages[self.parent].type,
                    name |-> stages[self.parent].name,
                    body |-> self.body]
    IN  [try_ EXCEPT !.handlers = <<handler>> \o @]

TryWithExcept_assemble(self) ==
    LET try_ == assemble(stages[self.parent])
        handler == [cls |-> "ExceptHandler",
                    type |-> stages[self.parent].type,
                    name |-> stages[self.parent].name,
                    body |-> self.body]
    IN  [try_ EXCEPT !.handlers = Append(@, handler)]

TryWithElse_assemble(self) ==
    LET try_ == assemble(stages[self.parent])
    IN  [try_ EXCEPT !.orelse = self.body]

TryWithFinally_assemble(self) ==
    LET try_ == assemble(stages[self.parent])
    IN  [try_ EXCEPT !.finalbody = self.body]

SetupTypes == {"TryWithExceptSetup", "TryWithElseSetup", "TryWithFinallySetup"}

assemble(self) ==
    IF self.cls = "Try" THEN Try_assemble(self)
    ELSE IF self.cls \in SetupTypes THEN TrySuiteSetup_assemble(self)
    ELSE IF self.cls = "TryWithExcept" THEN TryWithExcept_assemble(self)
    ELSE IF self.cls = "TryWithElse" THEN TryWithElse_assemble(self)
    ELSE TryWithFinally_assemble(self)

(***************************************************************************)
(* The unparser (source.py).                                               *)
(***************************************************************************)
\* the visit_<typename> methods SourceVisitor defines
VisitMethods ==
    {"Lambda", "ExceptHandler", "TryWithFinally", "TryWithElse",
     "TryWithExcept", "Try", "List", "Tuple", "Dict", "Set", "NoneType",
     "BinOp", "Add", "Sub", "Mult", "Div", "FloorDiv", "Pow", "AugAssign",
     "If", "IfExp", "Yield", "YieldFrom", "And", "Or", "Lt", "LtE", "Gt",
     "GtE", "In", "NotIn", "NotEq", "Eq", "Not", "Is", "IsNot", "UnaryOp",
     "Compare", "BoolOp", "Return", "Attribute", "ImportFrom", "Assign",
     "SpecialArg", "Args", "Kwargs", "FunctionDef", "Call", "NameConstant",
     "Expr", "Name", "Num", "Str", "arg", "Pass", "Raise", "Subscript",
     "Index", "Module", "ClassDef", "While", "For"}

\* repr of a str without quotes or escapes
Repr(s) == "'" \o s \o "'"

RECURSIVE JoinLines(_)
JoinLines(ls) ==
    IF Len(ls) = 1 THEN ls[1] ELSE ls[1] \o "\\n" \o JoinLines(Tail(ls))

\* '{!r}'.format(text)
ReprText(t) == IF IsErr(t) THEN t ELSE T(Repr(JoinLines(t.lines)))

\* str(obj) of an object without __str__/__repr__: object.__repr__
ObjectRepr(node) == T("<" \o node.cls \o " object at 0x...>")

\* bool(text) of a rendered str
NonEmpty(t) == t.lines # <<"">>

\* filter(None, xs) over str-or-None values
Truthy(x) == x.cls # "NoneType" /\ (("v" \in DOMAIN x) => x.v # "")

RECURSIVE Visit(_)

VisitAll(ns) == [i \in DOMAIN ns |-> Visit(ns[i])]

\* indent('\n'.join(map(self.visit, body)))
Block(body) == Indent(Join(NL, VisitAll(body)))

visit_Lambda(node) ==
    CatAll(<<T("lambda "), Join(T(", "), VisitAll(node.args.args)), T(": "),
             Visit(node.body)>>)

visit_ExceptHandler(node) ==
    LET body == Block(node.body)
    IN  IF IsErr(body) THEN body
        ELSE IF node.type.cls = "NoneType" THEN
            IF node.name.cls # "NoneType"
            THEN [err |-> "AssertionError", msg |-> "type is None but got name"]
            ELSE CatAll(<<T("except:"), NL, body>>)
        ELSE LET spec == Cat(T("except "), Visit(node.type))
                 spec2 == IF node.name.cls # "NoneType"
                          THEN Cat(spec, T(" as " \o node.name.v)) ELSE spec
             IN  CatAll(<<spec2, T(":"), NL, body>>)

visit_TryWithFinally(node) == Visit(assemble(node))

visit_Try(node) ==
    LET first == Block(node.body)
    IN  IF "handlers" \notin DOMAIN node THEN
            IF IsErr(first) THEN first
            ELSE [err |-> "AttributeError",
                  msg |-> "'Try' object has no attribute 'handlers'"]
        ELSE
        LET head == <<T("try:"), first>> \o VisitAll(node.handlers)
            lines2 == IF node.orelse # <<>>
                      THEN head \o <<T("else:"), Block(node.orelse)>> ELSE head
            lines3 == IF node.finalbody # <<>>
                      THEN lines2 \o <<T("finally:"), Block(node.finalbody)>>
                      ELSE lines2
        IN  Join(NL, lines3)

visit_List(node) ==
    CatAll(<<T("["), Join(T(", "), VisitAll(node.elts)), T("]")>>)

visit_Tuple(node) ==
    IF Len(node.elts) = 1
    THEN CatAll(<<T("("), Visit(node.elts[1]), T(",)")>>)
    ELSE CatAll(<<T("("), Join(T(", "), VisitAll(node.elts)), T(")")>>)

\* map('{}: {}'.format, node.keys, node.values) formats the node objects
visit_Dict(node) ==
    CatAll(<<T("{"),
             Join(T(", "),
                  [i \in 1..Len(node.keys) |->
                      CatAll(<<ObjectRepr(node.keys[i]), T(": "),
                               ObjectRepr(node.values[i])>>)]),
             T("}")>>)

visit_Set(node) ==
    IF node.elts = <<>> THEN T("set()")
    ELSE CatAll(<<T("{"), Join(T(", "), VisitAll(node.elts)), T("}")>>)

visit_NoneType(node) == T("")

visit_BinOp(node) ==
    CatAll(<<Visit(node.left), T(" "), Visit(node.op), T(" "), Visit(node.right)>>)

\* visit_Add ... visit_IsNot: the operator symbols
OperatorText ==
    [Add |-> "+", Sub |-> "-", Mult |-> "*", Div |-> "/", FloorDiv |-> "//",
     Pow |-> "**", And |-> "and", Or |-> "or", Lt |-> "<", LtE |-> "<=",
     Gt |-> ">", GtE |-> ">=", In |-> "in", NotIn |-> "not in",
     NotEq |-> "!=", Eq |-> "==", Not |-> "not ", Is |-> "is",
     IsNot |-> "is not"]

visit_operator(node) == T(OperatorText[node.cls])

visit_AugAssign(node) ==
    CatAll(<<Visit(node.target), T(" "), Visit(node.op), T("= "), Visit(node.value)>>)

visit_If(node) ==
    LET test == Visit(node.test)
        body == Block(node.body)
    IN  IF node.orelse # <<>>
        THEN LET orelse == Block(node.orelse)
             IN  CatAll(<<T("if "), test, T(":"), NL, body, NL, T("else:"), NL,
                          orelse>>)
        ELSE CatAll(<<T("if "), test, T(":"), NL, body>>)

visit_IfExp(node) ==
    LET body == Visit(node.body)
        test == Visit(node.test)
    IN  CatAll(<<body, T(" if "), test, T(" else "), Visit(node.orelse)>>)

visit_Yield(node) == Cat(T("yield "), Visit(node.value))

visit_YieldFrom(node) == Cat(T("yield from "), Visit(node.value))

visit_UnaryOp(node) == Cat(Visit(node.op), Visit(node.operand))

visit_Compare(node) ==
    LET n == IF Len(node.ops) < Len(node.comparators)
             THEN Len(node.ops) ELSE Len(node.comparators)
    IN  Cat(Visit(node.left),
            Join(T(" "),
                 [i \in 1..n |->
                     CatAll(<<T(" "), Visit(node.ops[i]), T(" "),
                              Visit(node.comparators[i])>>)]))

visit_BoolOp(node) ==
    IF "left" \notin DOMAIN node
    THEN [err |-> "AttributeError",
          msg |-> "'BoolOp' object has no attribute 'left'"]
    ELSE CatAll(<<Visit(node.left), T(" "), Visit(node.op), T(" "),
                  Visit(node.right)>>)

visit_Return(node) == Cat(T("return "), Visit(node.value))

visit_Attribute(node) == Cat(Visit(node.value), T("." \o node.attr))

visit_ImportFrom(node) ==
    LET imp(a) == IF Truthy(a.asname) /\ Truthy(a.name)
                  THEN T(a.name.v \o " as " \o a.asname.v)
                  ELSE IF Truthy(a.name) THEN T(a.name.v)
                  ELSE IF Truthy(a.asname) THEN T(a.asname.v) ELSE T("")
    IN  CatAll(<<T("from " \o node.module \o " import "),
                 Join(T(", "), [i \in DOMAIN node.names |-> imp(node.names[i])])>>)

visit_Assign(node) ==
    CatAll(<<Join(T(", "), VisitAll(node.targets)), T(" = "), Visit(node.value)>>)

visit_SpecialArg(node) == T(node.arg)

\* mutant of visit_Args: the variadic-positional parameter loses its star
visit_Args_without_star(node) == T(node.v)

visit_Args(node) == T("*" \o node.v)

visit_Kwargs(node) == T("**" \o node.arg)

\* the decorator block of visit_FunctionDef (source.py 227-228)
DecoratorBlock(node) ==
    LET decorator_list == Join(NL, VisitAll(node.decorator_list))
    IN  IF IsErr(decorator_list) THEN decorator_list
        ELSE IF NonEmpty(decorator_list)
        THEN CatAll(<<T("@"), decorator_list, NL>>)
        ELSE T("")

visit_FunctionDef(node) ==
    LET decorators == DecoratorBlock(node)
        xargs == node.args
        allargs == xargs.args
                   \o SelectSeq(<<xargs.vararg, xargs.kwarg>>, Truthy)
        args == Join(T(", "), VisitAll(allargs))
        body == Block(node.body)
    IN  CatAll(<<NL, decorators, T("def " \o node.name \o "("), args, T("):"),
                 NL, body>>)

visit_Call(node) ==
    LET kw(k) == Cat(T(k.arg \o "="), ReprText(Visit(k.value)))
        items == VisitAll(node.args)
                 \o [i \in DOMAIN node.keywords |-> kw(node.keywords[i])]
    IN  IF node.func.cls = "Attribute" THEN
            LET func == Visit(node.func)
                args == Join(Cat(T(","), NL), items)
            IN  IF IsErr(func) THEN func
                ELSE IF IsErr(args) THEN args
                ELSE IF NonEmpty(args)
                THEN CatAll(<<func, T("("), NL, Indent(args), NL, T(")")>>)
                ELSE CatAll(<<func, T("("), Indent(args), T(")")>>)
        ELSE
            LET args == Join(T(", "), items)
            IN  IF IsErr(args) THEN args
                ELSE CatAll(<<Visit(node.func), T("("), args, T(")")>>)

visit_NameConstant(node) == T(node.value)

visit_Expr(node) == Visit(node.value)

visit_Name(node) == T(node.id)

visit_Num(node) ==
    IF node.n.cls = "int" THEN T(ToString(node.n.v)) ELSE T(node.n.v)

visit_Str(node) == T(Repr(node.s))

visit_arg(node) == T(node.arg)

visit_Pass(node) == T("pass")

visit_Raise(node) ==
    LET raise_string == Cat(T("raise "), Visit(node.exc))
    IN  IF "cause" \in DOMAIN node /\ node.cause.cls # "NoneType"
        THEN CatAll(<<raise_string, T(" from "), Visit(node.cause)>>)
        ELSE raise_string

visit_Subscript(node) ==
    CatAll(<<Visit(node.value), T("["), Visit(node.slice), T("]")>>)

visit_Index(node) == Visit(node.value)

visit_Module(node) == Join(NL, VisitAll(node.body))

visit_ClassDef(node) ==
    LET keywords == node.keywords
        buf1 == T("class " \o node.name)
        buf2 == IF node.bases # <<>>
                THEN Cat(buf1, Cat(T("("), Join(T(", "), VisitAll(node.bases))))
                ELSE buf1
        kwargs == Join(T(", "),
                       [i \in DOMAIN keywords |->
                           Cat(T(keywords[i].arg \o "="), Visit(keywords[i].value))])
        buf3 == IF keywords # <<>> THEN CatAll(<<buf2, T(", "), kwargs>>) ELSE buf2
        buf4 == IF node.bases # <<>> \/ keywords # <<>>
                THEN Cat(buf3, T(")")) ELSE buf3
    IN  CatAll(<<buf4, T(":"), Block(node.body)>>)

visit_While(node) ==
    LET body == Block(node.body)
    IN  IF IsErr(body) THEN body
        ELSE CatAll(<<T("while "), Visit(node.test), T(":"), NL, body>>)

visit_For(node) ==
    CatAll(<<T("for "), Visit(node.target), T(" in "), Visit(node.iter), T(":"),
             NL, Block(node.body)>>)

\* SourceVisitor.visit: dispatch on type(node).__name__
Visit(node) ==
    IF node.cls \notin VisitMethods
    THEN [err |-> "TypeError", node |-> node.cls,
          msg |-> "Node of type " \o node.cls \o " has no visit method"]
    ELSE CASE node.cls = "Lambda" -> visit_Lambda(node)
           [] node.cls = "ExceptHandler" -> visit_ExceptHandler(node)
           [] node.cls \in {"TryWithFinally", "TryWithElse", "TryWithExcept"} ->
                 visit_TryWithFinally(node)
           [] node.cls = "Try" -> visit_Try(node)
           [] node.cls = "List" -> visit_List(node)
           [] node.cls = "Tuple" -> visit_Tuple(node)
           [] node.cls = "Dict" -> visit_Dict(node)
           [] node.cls = "Set" -> visit_Set(node)
           [] node.cls = "NoneType" -> visit_NoneType(node)
           [] node.cls = "BinOp" -> visit_BinOp(node)
           [] node.cls \in DOMAIN OperatorText -> visit_operator(node)
           [] node.cls = "AugAssign" -> visit_AugAssign(node)
           [] node.cls = "If" -> visit_If(node)
           [] node.cls = "IfExp" -> visit_IfExp(node)
           [] node.cls = "Yield" -> visit_Yield(node)
           [] node.cls = "YieldFrom" -> visit_YieldFrom(node)
           [] node.cls = "UnaryOp" -> visit_UnaryOp(node)
           [] node.cls = "Compare" -> visit_Compare(node)
           [] node.cls = "BoolOp" -> visit_BoolOp(node)
           [] node.cls = "Return" -> visit_Return(node)
           [] node.cls = "Attribute" -> visit_Attribute(node)
           [] node.cls = "ImportFrom" -> visit_ImportFrom(node)
           [] node.cls = "Assign" -> visit_Assign(node)
           [] node.cls = "SpecialArg" -> visit_SpecialArg(node)
           [] node.cls = "Args" -> visit_Args(node)
           [] node.cls = "Kwargs" -> visit_Kwargs(node)
           [] node.cls = "FunctionDef" -> visit_FunctionDef(node)
           [] node.cls = "Call" -> visit_Call(node)
           [] node.cls = "NameConstant" -> visit_NameConstant(node)
           [] node.cls = "Expr" -> visit_Expr(node)
           [] node.cls = "Name" -> visit_Name(node)
           [] node.cls = "Num" -> visit_Num(node)
           [] node.cls = "Str" -> visit_Str(node)
           [] node.cls = "arg" -> visit_arg(node)
           [] node.cls = "Pass" -> visit_Pass(node)
           [] node.cls = "Raise" -> visit_Raise(node)
           [] node.cls = "Subscript" -> visit_Subscript(node)
           [] node.cls = "Index" -> visit_Index(node)
           [] node.cls = "Module" -> visit_Module(node)
           [] node.cls = "ClassDef" -> visit_ClassDef(node)
           [] node.cls = "While" -> visit_While(node)
           [] node.cls = "For" -> visit_For(node)

sourcify(mod) == Visit(mod)

(***************************************************************************)
(* Inputs of the Try builder.                                              *)
(***************************************************************************)
pass_ == [cls |-> "Pass"]

\* var.<id>: a miniast Name in Load context (Var.__getitem__, base.py 206)
LoadName(id) == [cls |-> "Name", lib |-> "miniast", id |-> id, ctx |-> "Load"]

\* the statement lists handed to try_, [...] and (...)
Bodies == {<<>>, <<pass_>>}

\* the (*type, as_=...) argument lists handed to except_
ExceptArgs ==
    {[type |-> <<LoadName("T1")>>, as_ |-> NoneValue],
     [type |-> <<LoadName("T1"), LoadName("T2")>>, as_ |-> PyStr("foo")],
     [type |-> <<>>, as_ |-> PyStr("foo")]}

(***************************************************************************)
(* The Try builder (base.py 689-785).  A stage object is stages[i]; parent *)
(* is the index of the object it references.                               *)
(***************************************************************************)
\* mutant of Offers: every built stage inherits Except and Finally
OffersEverywhere(cls) ==
    IF cls \in SetupTypes THEN {"__call__", "assemble"}
    ELSE {"except_", "else_", "finally_", "assemble"}

\* the builder methods each class defines or inherits
Offers(cls) ==
    CASE cls = "Try" -> {"except_", "finally_", "assemble"}
      [] cls = "TryWithExcept" -> {"except_", "else_", "finally_", "assemble"}
      [] cls = "TryWithElse" -> {"finally_", "assemble"}
      [] cls = "TryWithFinally" -> {"assemble"}
      [] cls \in SetupTypes -> {"__call__", "assemble"}

BuilderMethods == {"except_", "else_", "finally_", "__call__"}

\* mutant of Allocate: the receiver also records the new clause on itself (a
\* builder that updates in place) before the new stage is returned
AllocateInPlace(heap, self, obj) ==
    IF self = 0 THEN Append(heap, obj)
    ELSE Append([heap EXCEPT ![self] = @ @@ obj], obj)

\* a constructor call: a new object, the receiver `self` untouched
Allocate(heap, self, obj) == Append(heap, obj)

\* TrySetup.__call__ / Try.__init__
TrySetup_call(body) ==
    /\ stages = <<>>
    /\ stages' = Allocate(stages, 0, [cls |-> "Try", body |-> body])
    /\ hist' = Append(hist, <<[op |-> "try_", body |-> body]>>)
    /\ ret' = [ref |-> Len(stages) + 1]
    /\ UNCHANGED <<nodes, made, val>>

\* Except.except_ / TryWithExceptSetup.__init__
except_(self, args) ==
    LET typ == IF Len(args.type) = 1 THEN args.type[1] ELSE PyTuple(args.type)
        node == to_node(typ)
    IN  /\ "except_" \in Offers(stages[self].cls)
        /\ IF IsErr(node)
           THEN /\ ret' = node
                /\ UNCHANGED <<stages, hist>>
           ELSE /\ stages' = Allocate(stages, self,
                                      [cls |-> "TryWithExceptSetup",
                                       parent |-> self, type |-> node,
                                       name |-> args.as_])
                /\ hist' = Append(hist, Append(hist[self],
                                  [op |-> "except_", type |-> args.type,
                                   as_ |-> args.as_]))
                /\ ret' = [ref |-> Len(stages) + 1]
        /\ UNCHANGED <<nodes, made, val>>

\* TryWithExcept.else_
else_(self) ==
    /\ "else_" \in Offers(stages[self].cls)
    /\ stages' = Allocate(stages, self,
                          [cls |-> "TryWithElseSetup", parent |-> self])
    /\ hist' = Append(hist, Append(hist[self], [op |-> "else_"]))
    /\ ret' = [ref |-> Len(stages) + 1]
    /\ UNCHANGED <<nodes, made, val>>

\* Finally.finally_
finally_(self) ==
    /\ "finally_" \in Offers(stages[self].cls)
    /\ stages' = Allocate(stages, self,
                          [cls |-> "TryWithFinallySetup", parent |-> self])
    /\ hist' = Append(hist, Append(hist[self], [op |-> "finally_"]))
    /\ ret' = [ref |-> Len(stages) + 1]
    /\ UNCHANGED <<nodes, made, val>>

\* the class a setup stage constructs
Built(cls) ==
    CASE cls = "TryWithExceptSetup" -> "TryWithExcept"
      [] cls = "TryWithElseSetup" -> "TryWithElse"
      [] cls = "TryWithFinallySetup" -> "TryWithFinally"

\* TryWith*Setup.__call__ (and StatementWithBody.__getitem__, which calls it)
Setup_call(self, body) ==
    /\ "__call__" \in Offers(stages[self].cls)
    /\ stages' = Allocate(stages, self,
                          [cls |-> Built(stages[self].cls), parent |-> self,
                           body |-> body])
    /\ hist' = Append(hist, Append(hist[self], [op |-> "body", body |-> body]))
    /\ ret' = [ref |-> Len(stages) + 1]
    /\ UNCHANGED <<nodes, made, val>>

\* a builder method the stage's class does not have: attribute lookup fails
NotOffered(self, method) ==
    /\ method \notin Offers(stages[self].cls)
    /\ ret' = [err |-> "AttributeError",
               msg |-> "'" \o stages[self].cls \o "' object has no attribute '"
                       \o method \o "'"]
    /\ UNCHANGED <<stages, hist, nodes, made, val>>

\* stage.assemble()
Assemble(self) ==
    /\ ret' = assemble(stages[self])
    /\ UNCHANGED <<stages, hist, nodes, made, val>>

\* sourcify(stage)
SourcifyStage(self) ==
    /\ ret' = sourcify(stages[self])
    /\ UNCHANGED <<stages, hist, nodes, made, val>>

InitTry ==
    /\ stages = <<>>
    /\ hist = <<>>
    /\ nodes = <<>>
    /\ made = <<>>
    /\ val = NoneValue
    /\ ret = NoneValue

\* the stage the previous call returned, while the chain may still grow
Newest == {Len(stages)} \ {0}

ChainTargets == IF Len(stages) < MaxStages THEN Newest ELSE {}

\* one chain: every call is made on the stage the previous call returned
NextTry ==
    \/ \E body \in Bodies : TrySetup_call(body)
    \/ \E self \in ChainTargets, args \in ExceptArgs : except_(self, args)
    \/ \E self \in ChainTargets : else_(self)
    \/ \E self \in ChainTargets : finally_(self)
    \/ \E self \in ChainTargets, body \in Bodies : Setup_call(self, body)
    \/ \E self \in Newest, method \in BuilderMethods : NotOffered(self, method)
    \/ \E self \in Newest : Assemble(self)
    \/ \E self \in Newest : SourcifyStage(self)

SpecTry == InitTry /\ [][NextTry]_vars

ForkTargets == IF Len(stages) < MaxForked THEN DOMAIN stages ELSE {}

\* forks: calls are made on, and looks taken at, any stage built so far
NextFork ==
    \/ \E body \in Bodies : TrySetup_call(body)
    \/ \E self \in ForkTargets, args \in ExceptArgs : except_(self, args)
    \/ \E self \in ForkTargets : else_(self)
    \/ \E self \in ForkTargets : finally_(self)
    \/ \E self \in ForkTargets, body \in Bodies : Setup_call(self, body)
    \/ \E self \in DOMAIN stages, method \in BuilderMethods : NotOffered(self, method)
    \/ \E self \in DOMAIN stages : Assemble(self)
    \/ \E self \in DOMAIN stages : SourcifyStage(self)

SpecFork == InitTry /\ [][NextFork]_vars

(***************************************************************************)
(* What a chain of builder calls asks for, read off the call history.      *)
(***************************************************************************)
\* the except_ calls of a history that were given their body, in call order
HandlerCalls(h) ==
    LET at == {i \in 1..(Len(h) - 1) : h[i].op = "except_" /\ h[i+1].op = "body"}
        idx == SelectSeq([i \in 1..Len(h) |-> i], LAMBDA i : i \in at)
    IN  [k \in 1..Len(idx) |->
            [type |-> h[idx[k]].type, as_ |-> h[idx[k]].as_,
             body |-> h[idx[k] + 1].body]]

\* the bodies given to else_ / finally_ in a history (at most one each)
ClauseBodies(h, op) ==
    {h[i+1].body : i \in {j \in 1..(Len(h) - 1) : h[j].op = op /\ h[j+1].op = "body"}}

\* the handler type a call except_(*type) asks for
AskedType(type) ==
    IF Len(type) = 1 THEN type[1]
    ELSE [cls |-> "Tuple", elts |-> type, ctx |-> "Load"]

\* the clause header lines of a rendered try statement
AskedHeader(call) ==
    CASE call.type = <<LoadName("T1")>> /\ call.as_ = NoneValue -> "except T1:"
      [] call.type = <<LoadName("T1"), LoadName("T2")>> /\ call.as_ = PyStr("foo") ->
            "except (T1, T2) as foo:"
      [] call.type = <<>> /\ call.as_ = PyStr("foo") -> "except () as foo:"

Headers == {AskedHeader(c) : c \in ExceptArgs} \cup {"else:", "finally:"}

HeaderLines(text) == SelectSeq(text.lines, LAMBDA l : l \in Headers)

\* the newest stage, when it carries a body and at least one handler: the
\* chain the last builder call returned, which sourcify renders
Rendered == {s \in Newest :
                /\ stages[s].cls \in {"TryWithExcept", "TryWithElse", "TryWithFinally"}
                /\ Len(HandlerCalls(hist[s])) >= 1}

\* handlers come out in call order
HandlersInOrder(calls, try_, text) ==
    /\ Len(try_.handlers) = Len(calls)
    /\ \A k \in 1..Len(calls) :
          /\ try_.handlers[k].type = AskedType(calls[k].type)
          /\ try_.handlers[k].name = calls[k].as_
          /\ try_.handlers[k].body = calls[k].body
    /\ ~IsErr(text)
    /\ SelectSeq(HeaderLines(text), LAMBDA l : l \notin {"else:", "finally:"})
         = [k \in 1..Len(calls) |-> AskedHeader(calls[k])]

\* the clause is in the assembled and in the rendered statement if and only
\* if it is wanted
ClauseIff(wanted, body, header, text) ==
    IF wanted THEN body # <<>> /\ header \in Range(text.lines)
    ELSE body = <<>> /\ header \notin Range(text.lines)

TryAsAttached(s, empties) ==
    LET try_ == assemble(stages[s])
        text == sourcify(stages[s])
    IN  /\ HandlersInOrder(HandlerCalls(hist[s]), try_, text)
        /\ ClauseIff(ClauseBodies(hist[s], "else_") \ empties # {},
                     try_.orelse, "else:", text)
        /\ ClauseIff(ClauseBodies(hist[s], "finally_") \ empties # {},
                     try_.finalbody, "finally:", text)

\* C1 as stated: handlers are listed in call order, the else clause is there
\* if and only if else_ was attached, the finally clause if and only if
\* finally_ was attached.
C1_TryClausesAsAttached == \A s \in Rendered : TryAsAttached(s, {})

\* C1 amended: handlers are listed in call order; the else clause is there if
\* and only if else_ was attached with at least one statement, the finally
\* clause if and only if finally_ was attached with at least one statement;
\* neither depends on the other.
C1_TryClausesAsAttachedNonEmpty == \A s \in Rendered : TryAsAttached(s, {<<>>})

\* C1 witness: a rendered chain of two different handlers, else and finally
C1_Witness ==
    \E s \in Rendered :
        /\ Len(HandlerCalls(hist[s])) = 2
        /\ HandlerCalls(hist[s])[1].type = <<LoadName("T1"), LoadName("T2")>>
        /\ HandlerCalls(hist[s])[2].type = <<LoadName("T1")>>
        /\ ClauseBodies(hist[s], "else_") = {<<pass_>>}
        /\ ClauseBodies(hist[s], "finally_") = {<<pass_>>}
        /\ ret = sourcify(stages[s])

(***************************************************************************)
(* C2: builder calls leave the stages they are made on as they were.       *)
(***************************************************************************)
\* what the assembly of stage s holds is what the calls of its own chain gave
OwnClausesOnly(s) ==
    LET try_ == assemble(stages[s])
        calls == HandlerCalls(hist[s])
    IN  /\ try_.body = hist[s][1].body
        /\ try_.handlers = [k \in 1..Len(calls) |->
                               [cls |-> "ExceptHandler",
                                type |-> AskedType(calls[k].type),
                                name |-> calls[k].as_, body |-> calls[k].body]]
        /\ try_.orelse \in ClauseBodies(hist[s], "else_") \cup {<<>>}
        /\ (ClauseBodies(hist[s], "else_") \ {<<>>} # {} => try_.orelse # <<>>)
        /\ try_.finalbody \in ClauseBodies(hist[s], "finally_") \cup {<<>>}
        /\ (ClauseBodies(hist[s], "finally_") \ {<<>>} # {} => try_.finalbody # <<>>)

\* a step keeps every stage and its assembly, and a stage it adds references
\* the stage the call was made on
StagesKept ==
    /\ Len(stages') >= Len(stages)
    /\ \A s \in DOMAIN stages :
          /\ stages'[s] = stages[s]
          /\ assemble(stages[s])' = assemble(stages[s])
    /\ \A n \in DOMAIN stages' \ DOMAIN stages :
          /\ n = Len(stages) + 1
          /\ stages # <<>> =>
                /\ stages'[n].parent \in DOMAIN stages
                /\ hist'[n] = Append(hist[stages'[n].parent], hist'[n][Len(hist'[n])])
                /\ stages'[n] # stages[stages'[n].parent]

After(state, op) ==
    CASE state = "Start" /\ op = "try_" -> "Body"
      [] state \in {"Body", "HasHandler"} /\ op = "except_" -> "AwaitHandlerBody"
      [] state = "AwaitHandlerBody" /\ op = "body" -> "HasHandler"
      [] state = "HasHandler" /\ op = "else_" -> "AwaitElseBody"
      [] state = "AwaitElseBody" /\ op = "body" -> "HasElse"
      [] state \in {"Body", "HasHandler", "HasElse"} /\ op = "finally_" ->
            "AwaitFinallyBody"
      [] state = "AwaitFinallyBody" /\ op = "body" -> "HasFinally"
      [] OTHER -> "OutOfOrder"

RECURSIVE StateAfter(_)
StateAfter(h) ==
    IF h = <<>> THEN "Start"
    ELSE After(StateAfter(SubSeq(h, 1, Len(h) - 1)), h[Len(h)].op)

\* the builder calls each stage is to offer
Allowed(state) ==
    CASE state = "Body" -> {"except_", "finally_"}
      [] state = "HasHandler" -> {"except_", "else_", "finally_"}
      [] state = "HasElse" -> {"finally_"}
      [] state = "HasFinally" -> {}
      [] state \in {"AwaitHandlerBody", "AwaitElseBody", "AwaitFinallyBody"} ->
            {"__call__"}
      [] OTHER -> {}

\* C3: every stage reached by builder calls is in the order Body, handlers,
\* at most one else, at most one finally, and offers exactly the calls that
\* keep that order; a call that is not offered fails and builds nothing.
C3_StageOrder ==
    /\ \A s \in DOMAIN stages :
          /\ StateAfter(hist[s]) # "OutOfOrder"
          /\ Offers(stages[s].cls) \cap BuilderMethods = Allowed(StateAfter(hist[s]))
    /\ Len(hist) = Len(stages)

\* C3 witness: a chain with a handler, else and finally, on which a further
\* call was tried and refused
C3_Witness ==
    \E s \in DOMAIN stages :
        /\ StateAfter(hist[s]) = "HasFinally"
        /\ Len(HandlerCalls(hist[s])) >= 1
        /\ ClauseBodies(hist[s], "else_") # {}
        /\ s = Len(stages)
        /\ IsErr(ret) /\ ret.err = "AttributeError"

(***************************************************************************)
(* The expression node algebra (base.py 20-206, 303-320, 494-510).         *)
(* nodes[i] is a node object; the node a call is made on is referenced by  *)
(* [ref |-> i] from the node the call returns; operands are held inline.   *)
(***************************************************************************)
\* the mixins of each miniast node class; plain ast classes have none
ClassMixins ==
    [Name |-> {"Comparable", "BinOp", "Assignable", "Indexable", "Callable",
               "Attributable"},
     Tuple |-> {"Comparable", "BinOp", "Assignable", "Indexable"},
     Attribute |-> {"Assignable", "Indexable", "Comparable", "BinOp",
                    "Callable", "Attributable"},
     Subscript |-> {"Comparable", "BinOp", "Assignable", "Indexable",
                    "Callable", "Attributable"}]

Mixins(node) ==
    IF "lib" \in DOMAIN node /\ node.lib = "miniast" THEN ClassMixins[node.cls]
    ELSE {}

\* the methods binary_operations installs: name -> <<mixin, node built, op>>
ComparableMethods ==
    [__eq__ |-> "Eq", __ne__ |-> "NotEq", __lt__ |-> "Lt", __le__ |-> "LtE",
     __gt__ |-> "Gt", __ge__ |-> "GtE", is_ |-> "Is", is_not |-> "IsNot"]

BinOpMethods ==
    [__add__ |-> "Add", __radd__ |-> "Add", __sub__ |-> "Sub",
     __mul__ |-> "Mult", __rmul__ |-> "Mult", __floordiv__ |-> "FloorDiv",
     __truediv__ |-> "Div", __div__ |-> "Div", __pow__ |-> "Pow",
     __lshift__ |-> "LShift", __rshift__ |-> "RShift"]

AugAssignMethods ==
    [iadd |-> "Add", isub |-> "Sub", imul |-> "Mult", ifloordiv |-> "FloorDiv",
     idiv |-> "Div", ipow |-> "Pow", ilshift |-> "LShift", irshift |-> "RShift"]

SWAPPED_ARGUMENT_METHODS == {"__radd__", "__rmul__"}

\* the methods a node has through its mixins
MethodsOf(node) ==
    (IF "Comparable" \in Mixins(node) THEN DOMAIN ComparableMethods ELSE {})
    \cup (IF "BinOp" \in Mixins(node)
          THEN DOMAIN BinOpMethods \cup DOMAIN AugAssignMethods ELSE {})

\* to_node of an operand: a reference to a node object is a node
CoerceOperand(x) == IF "ref" \in DOMAIN x THEN x ELSE to_node(x)

\* self.<method>(other), for a method self has
CallMethod(self, node, method, other) ==
    LET o == CoerceOperand(other)
    IN  IF IsErr(o) THEN o
        ELSE IF method \in DOMAIN ComparableMethods THEN
            [cls |-> "Compare", left |-> self,
             ops |-> <<[cls |-> ComparableMethods[method]]>>, comparators |-> <<o>>]
        ELSE IF method \in SWAPPED_ARGUMENT_METHODS THEN
            [cls |-> "BinOp", left |-> o, op |-> [cls |-> BinOpMethods[method]],
             right |-> self]
        ELSE IF method \in DOMAIN BinOpMethods THEN
            [cls |-> "BinOp", left |-> self, op |-> [cls |-> BinOpMethods[method]],
             right |-> o]
        ELSE [cls |-> "AugAssign", target |-> self,
              op |-> [cls |-> AugAssignMethods[method]], value |-> o]

\* the method the host tries on the right operand when the left one has none
Reflected ==
    [__add__ |-> "__radd__", __mul__ |-> "__rmul__", __lt__ |-> "__gt__",
     __gt__ |-> "__lt__", __le__ |-> "__ge__", __ge__ |-> "__le__",
     __eq__ |-> "__eq__", __ne__ |-> "__ne__"]

Dunder(method) == method \in DOMAIN Reflected \cup DOMAIN BinOpMethods

\* the expression `left <op> right` with the node self = nodes[i] on the left
OperatorResult(self, node, method, other) ==
    IF method \in MethodsOf(node) THEN CallMethod(self, node, method, other)
    ELSE IF /\ method \in DOMAIN Reflected
            /\ "cls" \in DOMAIN other
            /\ Reflected[method] \in MethodsOf(other)
    THEN CallMethod(other, other, Reflected[method], self)
    ELSE IF method \in {"__eq__", "__ne__"}
    THEN [cls |-> "bool", v |-> IF method = "__eq__" THEN "False" ELSE "True"]
    ELSE IF Dunder(method)
    THEN [err |-> "TypeError",
          msg |-> "unsupported operand type(s): '" \o node.cls \o "' and '"
                  \o other.cls \o "'"]
    ELSE [err |-> "AttributeError",
          msg |-> "'" \o node.cls \o "' object has no attribute '" \o method \o "'"]

\* a call either returns a new node object or raises and builds nothing
Returns(result, how) ==
    IF IsErr(result) \/ result.cls = "bool"
    THEN /\ ret' = result
         /\ UNCHANGED <<nodes, made>>
    ELSE /\ Len(nodes) < MaxNodes
         /\ nodes' = Append(nodes, result)
         /\ made' = Append(made, how)
         /\ ret' = [ref |-> Len(nodes) + 1]

\* Var.__getitem__ / Var.__getattr__ with a str key
Var_getitem(id) ==
    /\ nodes = <<>>
    /\ Returns(LoadName(id), [op |-> "var", self |-> 0])
    /\ UNCHANGED <<stages, hist, val>>

\* Var.__getitem__ with a tuple key: the chain nodes[i] and the name `id`
Var_getitem_tuple(i, id) ==
    /\ nodes[i].cls \in {"Name", "Attribute", "Subscript"}
    /\ Returns([cls |-> "Tuple", lib |-> "miniast",
                elts |-> <<CoerceOperand([ref |-> i]), LoadName(id)>>,
                ctx |-> "Load"],
               [op |-> "var", self |-> i])
    /\ UNCHANGED <<stages, hist, val>>

\* Attributable.__getattr__
Attributable_getattr(i, name) ==
    /\ Returns(IF "Attributable" \in Mixins(nodes[i])
               THEN [cls |-> "Attribute", lib |-> "miniast",
                     value |-> [ref |-> i], attr |-> name, ctx |-> "Load"]
               ELSE [err |-> "AttributeError",
                     msg |-> "'" \o nodes[i].cls \o "' object has no attribute '"
                             \o name \o "'"],
               [op |-> "getattr", self |-> i])
    /\ UNCHANGED <<stages, hist, val>>

\* Indexable.__getitem__
Indexable_getitem(i, key) ==
    /\ Returns(IF "Indexable" \in Mixins(nodes[i])
               THEN LET k == CoerceOperand(key)
                    IN  IF IsErr(k) THEN k
                        ELSE [cls |-> "Subscript", lib |-> "miniast",
                              value |-> [ref |-> i],
                              slice |-> [cls |-> "Index", value |-> k],
                              ctx |-> "Load"]
               ELSE [err |-> "TypeError",
                     msg |-> "'" \o nodes[i].cls \o "' object is not subscriptable"],
               [op |-> "getitem", self |-> i])
    /\ UNCHANGED <<stages, hist, val>>

\* Callable.__call__; kwargs are <<name, value>> pairs
Callable_call(i, args, kwargs) ==
    /\ Returns(IF "Callable" \in Mixins(nodes[i])
               THEN LET a == FirstErr([k \in DOMAIN args |-> CoerceOperand(args[k])])
                    IN  IF IsErr(a) THEN a
                        ELSE [cls |-> "Call", func |-> [ref |-> i],
                              args |-> a.seq,
                              keywords |-> [k \in DOMAIN kwargs |->
                                              [cls |-> "keyword",
                                               arg |-> kwargs[k][1],
                                               value |-> kwargs[k][2]]]]
               ELSE [err |-> "TypeError",
                     msg |-> "'" \o nodes[i].cls \o "' object is not callable"],
               [op |-> "call", self |-> i])
    /\ UNCHANGED <<stages, hist, val>>

\* nodes[i] <op> other, nodes[i].is_(other), nodes[i].iadd(other)
Operator(i, method, other) ==
    /\ Returns(OperatorResult([ref |-> i], nodes[i], method, other),
               [op |-> IF method \in DOMAIN AugAssignMethods THEN "augassign"
                       ELSE "operator",
                self |-> i])
    /\ UNCHANGED <<stages, hist, val>>

\* other <op> nodes[i] for a host value other: the host finds no method on
\* other and tries the reflected one on the node
ReflectedOperator(other, method, i) ==
    /\ method \in DOMAIN BinOpMethods \ SWAPPED_ARGUMENT_METHODS
    /\ Returns(IF method \in DOMAIN Reflected /\ Reflected[method] \in MethodsOf(nodes[i])
               THEN CallMethod([ref |-> i], nodes[i], Reflected[method], other)
               ELSE [err |-> "TypeError",
                     msg |-> "unsupported operand type(s): '" \o other.cls
                             \o "' and '" \o nodes[i].cls \o "'"],
               [op |-> "operator", self |-> i])
    /\ UNCHANGED <<stages, hist, val>>

\* mutant of StoreFields: the copy keeps the context it was read with
StoreFieldsKeepCtx(node) == node

\* Assignable.store: fields = {f: getattr(self, f) ...}; fields['ctx'] = Store;
\* type(self)(**fields)
StoreFields(node) == [node EXCEPT !.ctx = "Store"]

\* mutant of Store: the receiver itself is switched to Store context
Store_in_place(heap, i, v) ==
    [heap EXCEPT ![i] = StoreFields(@)]
    \o <<StoreFields(heap[i]),
         [cls |-> "Assign", targets |-> <<[ref |-> Len(heap) + 1]>>, value |-> v]>>

\* ast.Assign(targets=[type(self)(**fields)], value=v): two new objects
Store(heap, i, v) ==
    heap \o <<StoreFields(heap[i]),
              [cls |-> "Assign", targets |-> <<[ref |-> Len(heap) + 1]>>, value |-> v]>>

\* Assignable.store
Assignable_store(i, value) ==
    /\ Len(nodes) + 1 < MaxNodes
    /\ IF "Assignable" \in Mixins(nodes[i])
       THEN LET v == CoerceOperand(value)
            IN  IF IsErr(v)
                THEN ret' = v /\ UNCHANGED <<nodes, made>>
                ELSE /\ nodes' = Store(nodes, i, v)
                     /\ made' = made \o <<[op |-> "target", self |-> i],
                                          [op |-> "store", self |-> i,
                                           value |-> value]>>
                     /\ ret' = [ref |-> Len(nodes) + 2]
       ELSE /\ ret' = [err |-> "AttributeError",
                       msg |-> "'" \o nodes[i].cls \o "' object has no attribute 'store'"]
            /\ UNCHANGED <<nodes, made>>
    /\ UNCHANGED <<stages, hist, val>>

\* inputs of the expression algebra
Ids == {"a"}
Attrs == {"b"}
OperandValues == {PyInt(1), LoadName("c"), PyBytes}
ArgLists == {<<>>} \cup {<<x>> : x \in OperandValues}
ForwardMethods == {"__sub__", "__add__", "__eq__", "is_", "iadd"}
HostLeftMethods == {"__add__", "__sub__"}
HostValues == {PyInt(1), PyBytes}

\* calls are made on the node the previous call returned
NewestNode == {Len(nodes)} \ {0}

NextExpr ==
    \/ \E id \in Ids : Var_getitem(id)
    \/ \E i \in NewestNode, id \in Ids : Var_getitem_tuple(i, id)
    \/ \E i \in NewestNode, name \in Attrs : Attributable_getattr(i, name)
    \/ \E i \in NewestNode, key \in OperandValues : Indexable_getitem(i, key)
    \/ \E i \in NewestNode, args \in ArgLists : Callable_call(i, args, <<>>)
    \/ \E i \in NewestNode, m \in ForwardMethods, other \in OperandValues :
          Operator(i, m, other)
    \/ \E i \in NewestNode, m \in HostLeftMethods, other \in HostValues :
          ReflectedOperator(other, m, i)
    \/ \E i \in NewestNode, value \in OperandValues : Assignable_store(i, value)

SpecExpr == InitTry /\ [][NextExpr]_vars

(***************************************************************************)
(* Claims about the expression node algebra.                               *)
(***************************************************************************)
\* the targets store() built
StoreTargets == {i \in DOMAIN nodes : made[i].op = "target"}

\* the node objects a node holds in its value / elts position
ChildRefs(node) ==
    (IF "value" \in DOMAIN node /\ "ref" \in DOMAIN node.value
     THEN {node.value.ref} ELSE {})
    \cup (IF "elts" \in DOMAIN node
          THEN {node.elts[k].ref : k \in {k \in DOMAIN node.elts :
                                          "ref" \in DOMAIN node.elts[k]}}
          ELSE {})

\* the rest of the chain below node i
RECURSIVE Below(_)
Below(i) ==
    LET c == ChildRefs(nodes[i]) IN c \cup UNION {Below(j) : j \in c}

HasCtx(i, ctx) == "ctx" \in DOMAIN nodes[i] => nodes[i].ctx = ctx

\* C4 (as stated): store(value) on a read chain yields a target in which
\* every node of the chain, not only the outermost one, carries Store.
C4_StoreWholeChain ==
    \A i \in StoreTargets : \A j \in {i} \cup Below(i) : HasCtx(j, "Store")

\* C4 (amended): store(value) yields a new target node of the receiver's
\* class that carries Store and holds the receiver's own children; every
\* node of the chain below the outermost one keeps Load context.
C4_StoreOutermostOnly ==
    \A i \in StoreTargets :
        LET self == nodes[made[i].self]
        IN  /\ nodes[i].ctx = "Store"
            /\ nodes[i].cls = self.cls
            /\ ChildRefs(nodes[i]) = ChildRefs(self)
            /\ \A j \in Below(i) : HasCtx(j, "Load")
            /\ nodes[i + 1].cls = "Assign"
            /\ nodes[i + 1].targets = <<[ref |-> i]>>

\* a.b[1].c.store(1) was built: a target over a chain of three nodes
C4_Witness ==
    \E i \in StoreTargets :
        /\ nodes[i].cls = "Attribute"
        /\ Cardinality(Below(i)) = 3
        /\ \E j \in Below(i) : nodes[j].cls = "Subscript"
        /\ ret = [ref |-> i + 1]

\* the capabilities of an expression node
ExpressionMixins == {"Comparable", "BinOp", "Callable", "Indexable", "Attributable"}

\* the nodes an expression-building operation returned
ExpressionResults ==
    {i \in DOMAIN nodes : made[i].op \in {"getattr", "getitem", "call", "operator"}}

\* C10: the result of any expression-building operation (comparison,
\* arithmetic operator, call, subscript, attribute access) is itself a node
\* on which every one of those operations can be applied again.
C10_ClosedUnderComposition ==
    \A i \in ExpressionResults : ExpressionMixins \subseteq Mixins(nodes[i])

(***************************************************************************)
(* Coercing and rendering host values: to_node(val), then sourcify of the  *)
(* node it returned.                                                       *)
(***************************************************************************)
Atoms == {PyStr("s"), PyInt(1), PyFloat("1.5"), NoneValue, LoadName("a"), PyBytes}
Hashables == {PyStr("s"), PyInt(1), PyFloat("1.5")}
DictKeys == {PyStr("s"), PyInt(1)}

Distinct(s) == \A i, j \in DOMAIN s : i # j => s[i] # s[j]

\* containers of atoms
Flat ==
    {PyList(items) : items \in SeqsUpTo(Atoms, MaxLen)}
    \cup {PyTuple(items) : items \in SeqsUpTo(Atoms, MaxLen)}
    \cup {PySet(items) : items \in {x \in SeqsUpTo(Hashables, MaxLen) : Distinct(x)}}
    \cup {PyDict(items) :
            items \in {x \in SeqsUpTo(DictKeys \X Atoms, MaxLen) :
                         Distinct([i \in DOMAIN x |-> x[i][1]])}}

\* containers of containers
Inner == {PyList(<<PyInt(1)>>), PyTuple(<<PyInt(1)>>), PyTuple(<<>>),
          PySet(<<PyInt(1)>>), PySet(<<>>), PyDict(<<>>),
          PyDict(<<<<PyInt(1), PyStr("s")>>>>), PyList(<<PyBytes>>)}

Nested ==
    {PyList(<<c>>) : c \in Inner} \cup {PyTuple(<<c, c>>) : c \in Inner}
    \cup {PyDict(<<<<PyStr("s"), c>>>>) : c \in Inner}

Values == Atoms \cup Flat \cup Nested

InitCoerce ==
    /\ val \in Values
    /\ stages = <<>> /\ hist = <<>> /\ nodes = <<>> /\ made = <<>>
    /\ ret = NoneValue

\* ret = to_node(val); nodes holds what it returned
ToNode ==
    /\ made = <<>> /\ ret = NoneValue
    /\ ret' = to_node(val)
    /\ IF IsErr(ret')
       THEN UNCHANGED <<nodes, made>>
       ELSE /\ nodes' = <<ret'>>
            /\ made' = <<[op |-> "to_node", self |-> 0]>>
    /\ UNCHANGED <<stages, hist, val>>

\* ret = sourcify(to_node(val))
SourcifyNode ==
    /\ made # <<>> /\ ret = nodes[1]
    /\ ret' = sourcify(nodes[1])
    /\ UNCHANGED <<stages, hist, nodes, made, val>>

NextCoerce == ToNode \/ SourcifyNode

SpecCoerce == InitCoerce /\ [][NextCoerce]_vars

\* to_node(val) returned / raised
Coerced == made # <<>>
CoerceRaised == made = <<>> /\ IsErr(ret)
\* sourcify(to_node(val)) returned a text
RenderedText == Coerced /\ "lines" \in DOMAIN ret

\* the literal categories of the coercion layer
LiteralNode ==
    [str |-> "Str", int |-> "Num", float |-> "Num", list |-> "List",
     tuple |-> "Tuple", dict |-> "Dict", set |-> "Set"]

RECURSIVE Supported(_)
Supported(v) ==
    \/ v.cls = "NoneType"
    \/ IsAST(v)
    \/ v.cls \in {"str", "int", "float"}
    \/ /\ v.cls \in {"list", "tuple", "set"}
       /\ \A i \in DOMAIN v.items : Supported(v.items[i])
    \/ /\ v.cls = "dict"
       /\ \A i \in DOMAIN v.items : Supported(v.items[i][1]) /\ Supported(v.items[i][2])

\* C5 (as stated): to_node is total over its supported inputs and always
\* returns a Node; to_node(None) is the None-literal node and to_node(n) of a
\* node n is n itself.
C5_ToNodeTotal ==
    (Supported(val) /\ (Coerced \/ CoerceRaised)) =>
        /\ Coerced
        /\ IsAST(nodes[1])
        /\ val.cls = "NoneType" => nodes[1] = [cls |-> "NameConstant", value |-> "None"]
        /\ IsAST(val) => nodes[1] = val

\* C5 (amended): to_node never raises on a supported input; a literal maps
\* to a node of its category, a node n maps to n itself, and None maps to
\* None itself (not to a node).
C5_ToNodeTotalNonePassesThrough ==
    (Supported(val) /\ (Coerced \/ CoerceRaised)) =>
        /\ Coerced
        /\ val.cls \in DOMAIN LiteralNode =>
              IsAST(nodes[1]) /\ nodes[1].cls = LiteralNode[val.cls]
        /\ val.cls = "NoneType" => nodes[1] = val
        /\ IsAST(val) => nodes[1] = val

\* to_node(None) returned None
C5_Witness == val = NoneValue /\ Coerced /\ nodes = <<NoneValue>> /\ ret = NoneValue

\* C6: coercing a value that is neither None, nor a node, nor a supported
\* literal fails with a TypeError-class error whose message names the type
\* of the offending value, and no node is produced.
C6_UnsupportedIsTypeError ==
    (~Supported(val) /\ (Coerced \/ CoerceRaised)) =>
        /\ CoerceRaised
        /\ ret.err = "TypeError"
        /\ nodes = <<>>

\* sep.join(strs) on plain strings
RECURSIVE JoinStr(_, _)
JoinStr(sep, strs) ==
    IF strs = <<>> THEN ""
    ELSE IF Len(strs) = 1 THEN strs[1]
    ELSE strs[1] \o sep \o JoinStr(sep, Tail(strs))

\* the source text of a literal equal to v
RECURSIVE Literal(_)
Literal(v) ==
    LET each == IF "items" \in DOMAIN v /\ v.cls # "dict"
                THEN [i \in DOMAIN v.items |-> Literal(v.items[i])] ELSE <<>>
    IN  CASE v.cls = "str" -> Repr(v.v)
          [] v.cls = "int" -> ToString(v.v)
          [] v.cls = "float" -> v.v
          [] v.cls = "list" -> "[" \o JoinStr(", ", each) \o "]"
          [] v.cls = "tuple" ->
                IF Len(each) = 1 THEN "(" \o each[1] \o ",)"
                ELSE "(" \o JoinStr(", ", each) \o ")"
          [] v.cls = "set" ->
                IF each = <<>> THEN "set()" ELSE "{" \o JoinStr(", ", each) \o "}"
          [] v.cls = "dict" ->
                "{" \o JoinStr(", ", [i \in DOMAIN v.items |->
                                        Literal(v.items[i][1]) \o ": "
                                        \o Literal(v.items[i][2])])
                \o "}"

\* a supported literal: no None, node or unsupported value anywhere in it
RECURSIVE IsLiteral(_)
IsLiteral(v) ==
    \/ v.cls \in {"str", "int", "float"}
    \/ /\ v.cls \in {"list", "tuple", "set"}
       /\ \A i \in DOMAIN v.items : IsLiteral(v.items[i])
    \/ /\ v.cls = "dict"
       /\ \A i \in DOMAIN v.items : IsLiteral(v.items[i][1]) /\ IsLiteral(v.items[i][2])

\* C7: for every supported literal value v, rendering to_node(v) produces
\* the source text of a literal equal to v: every element, key and value
\* appears as its own rendered text.
C7_LiteralRoundTrip ==
    (IsLiteral(val) /\ Coerced /\ ret # nodes[1]) => ret = T(Literal(val))

\* the same, for the literals that hold no dict entry (not a claim: the part
\* of C7 the code meets)
RECURSIVE HasDictEntry(_)
HasDictEntry(v) ==
    /\ "items" \in DOMAIN v
    /\ \/ v.cls = "dict" /\ v.items # <<>>
       \/ v.cls # "dict" /\ \E i \in DOMAIN v.items : HasDictEntry(v.items[i])
       \/ v.cls = "dict" /\ \E i \in DOMAIN v.items : HasDictEntry(v.items[i][2])

LiteralRoundTripWithoutDictEntries ==
    (IsLiteral(val) /\ ~HasDictEntry(val) /\ Coerced /\ ret # nodes[1])
        => ret = T(Literal(val))

(***************************************************************************)
(* Statement builders and rendering of the trees the API built.            *)
(***************************************************************************)
\* the characters of the module names used as keys
Chars == [os |-> <<"o", "s">>, sys |-> <<"s", "y", "s">>, x |-> <<"x">>,
          np |-> <<"n", "p">>]

\* mutant of Alias_getitem: a key of any length is unpacked from its ends
Alias_getitem_any_length(key) ==
    LET parts == IF key.cls = "str" THEN Chars[key.v]
                 ELSE [k \in DOMAIN key.items |-> key.items[k].v]
    IN  IF parts # <<>>
        THEN [cls |-> "alias", name |-> parts[1], asname |-> parts[Len(parts)]]
        ELSE [err |-> "ValueError",
              msg |-> "Only as imports are allowed with __getitem__, key length must be 2"]

\* Alias.__getitem__: name, asname = key
Alias_getitem(key) ==
    LET parts == IF key.cls = "str" THEN Chars[key.v]
                 ELSE [k \in DOMAIN key.items |-> key.items[k].v]
    IN  IF Len(parts) = 2
        THEN [cls |-> "alias", name |-> parts[1], asname |-> parts[2]]
        ELSE [err |-> "ValueError",
              msg |-> "Only as imports are allowed with __getitem__, key length must be 2"]

\* Import.__getitem__ / Import.__getattr__
Import_getitem(key) ==
    /\ nodes = <<>>
    /\ LET names == FirstErr(IF key.cls = "tuple"
                             THEN [k \in DOMAIN key.items |-> Alias_getitem(key.items[k])]
                             ELSE <<Alias_getitem(key)>>)
       IN  Returns(IF IsErr(names) THEN names
                   ELSE [cls |-> "Import", names |-> names.seq],
                   [op |-> "import_", self |-> 0, key |-> key])
    /\ UNCHANGED <<stages, hist, val>>

\* def_.<name>(*arguments, **kwargs)[body]: FunctionDef.__call__ and
\* FunctionSignature.__call__; kwargs holds the values of the keyword dict
FunctionSignature_call(name, arguments, kwargs, body) ==
    /\ nodes = <<>>
    /\ LET varargs == SelectSeq(arguments, LAMBDA a : a.cls = "Args")
           args == SelectSeq(arguments, LAMBDA a : a.cls \notin {"Args", "dict"})
       IN  Returns([cls |-> "FunctionDef", name |-> name,
                    args |-> [cls |-> "arguments", args |-> args,
                              vararg |-> IF varargs # <<>> THEN varargs[1]
                                         ELSE NoneValue,
                              kwarg |-> IF kwargs # <<>> THEN kwargs[1]
                                        ELSE NoneValue],
                    body |-> body, decorator_list |-> <<>>,
                    returns |-> NoneValue],
                   [op |-> "def_", self |-> 0, arguments |-> arguments,
                    kwargs |-> kwargs, body |-> body])
    /\ UNCHANGED <<stages, hist, val>>

\* decorate(*functions)(function_definition)
decorate(functions, i) ==
    /\ "decorator_list" \in DOMAIN nodes[i]
    /\ Len(nodes) <= MaxDecorated
    /\ Returns([nodes[i] EXCEPT !.decorator_list = functions],
               [op |-> "decorate", self |-> i])
    /\ UNCHANGED <<stages, hist, val>>

\* the fields through which a node holds another node object
NodeFields == {"value", "func", "left", "right", "target"}
NodeListFields == {"elts", "targets"}

\* the tree under a node object, as attribute access walks it
RECURSIVE Tree(_)
Tree(x) ==
    IF "ref" \in DOMAIN x THEN Tree(nodes[x.ref])
    ELSE [f \in DOMAIN x |->
            IF f \in NodeFields /\ x.cls # "NameConstant" THEN Tree(x[f])
            ELSE IF f \in NodeListFields THEN [k \in DOMAIN x[f] |-> Tree(x[f][k])]
            ELSE x[f]]

\* sourcify(nodes[i])
Sourcify(i) ==
    /\ val' = Tree([ref |-> i])
    /\ ret' = sourcify(val')
    /\ UNCHANGED <<stages, hist, nodes, made>>

\* inputs of the statement builders
ImportKeys == {PyStr("os"), PyStr("sys"),
               PyTuple(<<PyTuple(<<PyStr("numpy"), PyStr("np")>>)>>)}
FunctionNames == {"f"}
ArgumentLists == {<<>>, <<[cls |-> "SpecialArg", arg |-> "x"],
                          [cls |-> "Args", v |-> "args"]>>}
Decorators == {LoadName("d1"), LoadName("d2")}
KwargLists == {<<>>, <<[cls |-> "Kwargs", arg |-> "kw"]>>}
KeywordLists == {<<>>, <<<<"x", PyInt(1)>>>>, <<<<"x", LoadName("c")>>>>}

NextRender ==
    \/ \E id \in Ids : Var_getitem(id)
    \/ \E i \in NewestNode, name \in Attrs : Attributable_getattr(i, name)
    \/ \E i \in NewestNode, kwargs \in KeywordLists :
          Callable_call(i, <<PyInt(1)>>, kwargs)
    \/ \E i \in NewestNode, m \in {"__lshift__", "__rshift__", "__add__"} :
          Operator(i, m, PyInt(1))
    \/ \E key \in ImportKeys : Import_getitem(key)
    \/ \E name \in FunctionNames, arguments \in ArgumentLists,
          kwargs \in KwargLists, body \in Bodies :
          FunctionSignature_call(name, arguments, kwargs, body)
    \/ \E i \in NewestNode, functions \in SeqsUpTo(Decorators, MaxLen) :
          decorate(functions, i)
    \/ \E i \in NewestNode : Sourcify(i)

SpecRender == InitTry /\ [][NextRender]_vars

\* sourcify of the newest node returned or raised
Sourcified == nodes # <<>> /\ val = Tree([ref |-> Len(nodes)]) /\ ret # [ref |-> Len(nodes)]

\* the text of a function definition with the decorator lines ds put above
\* its def line
WithDecoratorLines(fd, ds) ==
    LET plain == sourcify([fd EXCEPT !.decorator_list = <<>>])
    IN  [lines |-> <<"">> \o ds \o Tail(plain.lines)]

\* C8: a function definition decorated with [d1, ..., dn] (n >= 1) renders,
\* above the def line, exactly n decorator lines in input order, each on its
\* own line and each prefixed with '@'.
C8_DecoratorLines ==
    (Sourcified /\ val.cls = "FunctionDef" /\ val.decorator_list # <<>>) =>
        ret = WithDecoratorLines(val, [k \in DOMAIN val.decorator_list |->
                                          "@" \o sourcify(val.decorator_list[k]).lines[1]])

\* C9: every node category that can occur in a tree produced by the
\* construction API has a rendering rule, so rendering any constructible
\* tree never raises the 'no visit method' error.
C9_EveryNodeHasVisitMethod ==
    Sourcified => ~(IsErr(ret) /\ ret.err = "TypeError" /\ "node" \in DOMAIN ret)

(***************************************************************************)
(* Further claims about the Try builder.                                   *)
(***************************************************************************)
\* the except_ calls that bound a name without giving an exception type
NameWithoutType(call) ==
    call.op = "except_" /\ call.type = <<>> /\ call.as_.cls # "NoneType"

\* C11: calling except_ with a bound name (as_) but no exception type is
\* rejected at the point of the call: no handler stage is produced and
\* nothing is rendered for such a handler.
C11_NameWithoutTypeRejected ==
    \A s \in DOMAIN stages :
        stages[s].cls = "TryWithExceptSetup" =>
            ~NameWithoutType(hist[s][Len(hist[s])])

(***************************************************************************)
(* Statement builders: if_, for_, while_, class_ (base.py 322-412,         *)
(* 605-657); def_ is FunctionSignature_call above.                         *)
(***************************************************************************)
\* list(map(to_expr, to_list(body)))
ToExprs(body) == [k \in DOMAIN body |-> to_expr(body[k])]

\* If.__init__
If(test, body, orelse) ==
    [cls |-> "If", lib |-> "miniast", test |-> test, body |-> body,
     orelse |-> orelse]

\* if_(test)[body]: IfStatement.__call__ and IfCond.__call__
IfCond_call(test, body) ==
    /\ nodes = <<>>
    /\ Returns(If(test, ToExprs(body), <<>>),
               [op |-> "if_", self |-> 0, body |-> body])
    /\ UNCHANGED <<stages, hist, val>>

\* mutant of Else_call: the else branch is attached to the receiver itself
Else_call_in_place(heap, i, orelse) ==
    LET ifstmt == [heap[i] EXCEPT !.orelse = ToExprs(orelse)]
    IN  Append([heap EXCEPT ![i] = ifstmt], ifstmt)

\* Else.__call__: type(ifstmt)(ifstmt.test, ifstmt.body, orelse)
Else_call(heap, i, orelse) ==
    Append(heap, If(heap[i].test, heap[i].body, ToExprs(orelse)))

\* <If>.else_[orelse]: If.else_ and Else.__call__
If_else_(i, orelse) ==
    /\ Len(nodes) <= MaxElse
    /\ IF nodes[i].cls = "If" /\ "lib" \in DOMAIN nodes[i]
       THEN /\ nodes' = Else_call(nodes, i, orelse)
            /\ made' = Append(made, [op |-> "else_", self |-> i, orelse |-> orelse])
            /\ ret' = [ref |-> Len(nodes) + 1]
       ELSE /\ ret' = [err |-> "AttributeError",
                       msg |-> "'" \o nodes[i].cls \o "' object has no attribute 'else_'"]
            /\ UNCHANGED <<nodes, made>>
    /\ UNCHANGED <<stages, hist, val>>

\* for_(target).in_(iter)[body]: IteratedFor.__call__
IteratedFor_call(target, iter, body) ==
    /\ nodes = <<>>
    /\ Returns([cls |-> "For", target |-> target, iter |-> iter, body |-> body],
               [op |-> "for_", self |-> 0, body |-> body])
    /\ UNCHANGED <<stages, hist, val>>

\* while_(test)[body]: WhileBody.__call__
WhileBody_call(test, body) ==
    /\ nodes = <<>>
    /\ Returns([cls |-> "While", test |-> test, body |-> body],
               [op |-> "while_", self |-> 0, body |-> body])
    /\ UNCHANGED <<stages, hist, val>>

\* class_.<name>(*bases, **keywords)[body]: ClassConstructible.__call__;
\* keywords are <<name, value>> pairs
ClassConstructible_call(name, bases, keywords, body) ==
    /\ nodes = <<>>
    /\ LET values == FirstErr([k \in DOMAIN keywords |-> to_node(keywords[k][2])])
       IN  Returns(IF IsErr(values) THEN values
                   ELSE [cls |-> "ClassDef", name |-> name, bases |-> bases,
                         keywords |-> [k \in DOMAIN keywords |->
                                         [cls |-> "keyword", arg |-> keywords[k][1],
                                          value |-> values.seq[k]]],
                         body |-> body, decorator_list |-> <<>>],
                   [op |-> "class_", self |-> 0, body |-> body])
    /\ UNCHANGED <<stages, hist, val>>

\* inputs of the statement builders
BodyElements == {pass_, LoadName("x")}
StmtBodies == SeqsUpTo(BodyElements, MaxLen)
ElseBodies == {<<>>, <<pass_>>, <<LoadName("x")>>}
Tests == {LoadName("a")}
ClassNames == {"A"}
BaseLists == {<<>>, <<LoadName("object")>>, <<LoadName("B"), LoadName("C")>>}
ClassKeywords == {<<>>, <<<<"metaclass", LoadName("M")>>>>,
                  <<<<"metaclass", LoadName("M")>>, <<"x", PyInt(1)>>>>}
SignatureArguments ==
    SeqsUpTo({[cls |-> "SpecialArg", arg |-> "x"], [cls |-> "SpecialArg", arg |-> "y"],
              [cls |-> "Args", v |-> "args"], [cls |-> "Args", v |-> "more"]}, MaxLen)
SignatureKwargs ==
    {<<>>, <<[cls |-> "Kwargs", arg |-> "kw"]>>,
     <<[cls |-> "Kwargs", arg |-> "kw"], [cls |-> "Kwargs", arg |-> "kw2"]>>}

NextStmt ==
    \/ \E test \in Tests, body \in StmtBodies : IfCond_call(test, body)
    \/ \E i \in {j \in DOMAIN nodes : nodes[j].cls = "If"}, orelse \in ElseBodies :
          If_else_(i, orelse)
    \/ \E body \in StmtBodies : IteratedFor_call(LoadName("i"), LoadName("xs"), body)
    \/ \E test \in Tests, body \in StmtBodies : WhileBody_call(test, body)
    \/ \E name \in ClassNames, bases \in BaseLists, keywords \in ClassKeywords,
          body \in StmtBodies : ClassConstructible_call(name, bases, keywords, body)
    \/ \E name \in FunctionNames, arguments \in SignatureArguments,
          kwargs \in SignatureKwargs, body \in StmtBodies :
          FunctionSignature_call(name, arguments, kwargs, body)
    \/ \E i \in DOMAIN nodes : Sourcify(i)

SpecStmt == InitTry /\ [][NextStmt]_vars

(***************************************************************************)
(* Claims about the statement builders.                                    *)
(***************************************************************************)
\* no call changes a node object that already exists
NodesKept == \A i \in DOMAIN nodes : i \in DOMAIN nodes' /\ nodes'[i] = nodes[i]

\* the If objects else_ returned, and the one if_ returned
ElseResults == {i \in DOMAIN nodes : made[i].op = "else_"}
IfResults == {i \in DOMAIN nodes : made[i].op = "if_"}

\* C12: else_ on a terminal If returns a new If carrying the original test,
\* the original body and the new else branch, and leaves the original If
\* unchanged (its else branch stays empty); else_ is available again on the
\* result and on the original, each call producing a further new If without
\* changing any earlier one.
C12_ElseReturnsNewIf ==
    /\ [][NodesKept]_vars
    /\ [](\A i \in ElseResults :
            LET ifstmt == nodes[made[i].self]
            IN  /\ made[i].self < i
                /\ nodes[i].cls = "If" /\ nodes[i].lib = "miniast"
                /\ nodes[i].test = ifstmt.test
                /\ nodes[i].body = ifstmt.body
                /\ nodes[i].orelse = ToExprs(made[i].orelse))
    /\ [](\A i \in IfResults :
            nodes[i].cls = "If" /\ nodes[i].lib = "miniast" /\ nodes[i].orelse = <<>>)

\* else_ was called on the original If and then on the If that call returned
C12_Witness ==
    /\ Len(nodes) = 3
    /\ made[1].op = "if_" /\ nodes[1].orelse = <<>>
    /\ made[2].op = "else_" /\ made[2].self = 1 /\ nodes[2].orelse = <<pass_>>
    /\ made[3].op = "else_" /\ made[3].self = 2
    /\ nodes[3].orelse = <<[cls |-> "Expr", value |-> LoadName("x")]>>
    /\ ret = [ref |-> 3]

(***************************************************************************)
(* Import aliases and import_ (base.py 518-586).                           *)
(***************************************************************************)
\* alias[key]
Alias_getitem_call(key) ==
    /\ nodes = <<>> /\ val = NoneValue
    /\ val' = key
    /\ Returns(Alias_getitem(key), [op |-> "alias", self |-> 0, key |-> key])
    /\ UNCHANGED <<stages, hist>>

\* inputs of alias[...] and import_[...]
ModuleNames == {"os", "sys", "x", "np"}
AliasKeys ==
    {PyStr(n) : n \in ModuleNames}
    \cup {PyTuple(items) : items \in SeqsUpTo({PyStr(n) : n \in ModuleNames}, MaxLen + 1)}
ImportElements ==
    {PyStr(n) : n \in ModuleNames} \cup {PyTuple(<<PyStr("numpy"), PyStr("np")>>)}
ImportTuples == {PyTuple(items) : items \in SeqsUpTo(ImportElements, MaxLen)}

NextImport ==
    \/ \E key \in AliasKeys : Alias_getitem_call(key)
    \/ \E key \in {PyStr(n) : n \in ModuleNames} \cup ImportTuples : Import_getitem(key)
    \/ \E i \in DOMAIN nodes : Sourcify(i)

SpecImport == InitTry /\ [][NextImport]_vars

\* len(key)
KeyLength(key) == IF key.cls = "str" THEN Len(key.v) ELSE Len(key.items)

\* key[k]
KeyElement(key, k) == IF key.cls = "str" THEN Chars[key.v][k] ELSE key.items[k].v

\* alias[key] returned the alias nodes[1] / raised on the key val
AliasReturned == made # <<>> /\ made[1].op = "alias"
AliasRaised == made = <<>> /\ IsErr(ret) /\ val.cls \in {"str", "tuple"}

\* C13: alias[key] succeeds only for a 2-element (name, asname) key and then
\* yields the alias with exactly that name and asname; for every key whose
\* length is other than 2 it fails with a ValueError and produces no alias.
C13_AliasKeyOfLengthTwo ==
    /\ AliasReturned =>
          /\ KeyLength(made[1].key) = 2
          /\ nodes = <<[cls |-> "alias", name |-> KeyElement(made[1].key, 1),
                        asname |-> KeyElement(made[1].key, 2)]>>
    /\ AliasRaised => KeyLength(val) # 2 /\ ret.err = "ValueError" /\ nodes = <<>>

\* alias['os', 'np'] returned the alias os as np
C13_Witness ==
    /\ AliasReturned
    /\ made[1].key = PyTuple(<<PyStr("os"), PyStr("np")>>)
    /\ nodes = <<[cls |-> "alias", name |-> "os", asname |-> "np"]>>
    /\ ret = [ref |-> 1]

\* the import_ calls that returned, with their key
ImportResults == {i \in DOMAIN nodes : made[i].op = "import_"}

\* C19: for a module name given as a string of any length, import_[name]
\* yields an Import node with exactly one alias whose name is the whole
\* string and whose as-name is absent; a tuple key yields one alias per
\* element in the given order.
C19_ImportByName ==
    /\ \A i \in ImportResults :
          /\ nodes[i].cls = "Import"
          /\ made[i].key.cls = "str" =>
                nodes[i].names = <<[cls |-> "alias", name |-> made[i].key.v,
                                    asname |-> NoneValue]>>
          /\ made[i].key.cls = "tuple" =>
                Len(nodes[i].names) = Len(made[i].key.items)
    /\ ~(val.cls = "NoneType" /\ IsErr(ret) /\ ret.err = "ValueError")

\* the function definitions def_ returned
DefResults == {i \in DOMAIN nodes : made[i].op = "def_"}

IsVariadic(a) == a.cls = "Args"

\* the parameter list the claim asks for: positional names in the caller's
\* order, then *name, then **name
SignatureText(fd) ==
    JoinStr(", ",
            [k \in DOMAIN fd.args.args |-> fd.args.args[k].arg]
            \o (IF fd.args.vararg.cls = "Args" THEN <<"*" \o fd.args.vararg.v>> ELSE <<>>)
            \o (IF fd.args.kwarg.cls = "Kwargs" THEN <<"**" \o fd.args.kwarg.arg>>
                ELSE <<>>))

\* C14: for every argument list given to def_, the definition has at most
\* one variadic-positional and at most one variadic-keyword parameter, its
\* ordinary positional parameters keep the caller's order, and the rendered
\* signature lists the positional parameters by name, then *name, then
\* **name.
C14_Signature ==
    \A i \in DefResults :
        LET fd == nodes[i]
            given == made[i].arguments
            stars == SelectSeq(given, IsVariadic)
        IN  /\ fd.args.args = SelectSeq(given, LAMBDA a : ~IsVariadic(a))
            /\ fd.args.vararg = (IF stars = <<>> THEN NoneValue ELSE stars[1])
            /\ fd.args.kwarg = (IF made[i].kwargs = <<>> THEN NoneValue
                                ELSE made[i].kwargs[1])
            /\ (ret # [ref |-> i]) =>
                  /\ "lines" \in DOMAIN ret
                  /\ ret.lines[2] = "def " \o fd.name \o "(" \o SignatureText(fd) \o "):"

\* def_.f(arg.x, *arg.args, **arg.kw) was rendered
C14_Witness ==
    /\ DefResults = {1}
    /\ made[1].arguments = <<[cls |-> "SpecialArg", arg |-> "x"],
                             [cls |-> "Args", v |-> "args"]>>
    /\ made[1].kwargs = <<[cls |-> "Kwargs", arg |-> "kw"]>>
    /\ "lines" \in DOMAIN ret
    /\ ret.lines[2] = "def f(x, *args, **kw):"

\* the statements the statement builders returned
BuilderResults ==
    {i \in DOMAIN nodes : made[i].op \in {"if_", "else_", "for_", "while_", "def_", "class_"}}

IsStatement(node) == node.cls \in StmtTypes

\* C15: in every tree the statement builders produce, each element of every
\* body sequence is a statement node: an expression supplied as a body
\* element is wrapped in an expression-statement, statements are kept as
\* given and in the given order.
C15_BodiesHoldStatements ==
    \A i \in BuilderResults :
        /\ made[i].op # "else_" => nodes[i].body = ToExprs(made[i].body)
        /\ \A k \in DOMAIN nodes[i].body : IsStatement(nodes[i].body[k])
        /\ "orelse" \in DOMAIN nodes[i] =>
              \A k \in DOMAIN nodes[i].orelse : IsStatement(nodes[i].orelse[k])

(***************************************************************************)
(* Further claims about the expression node algebra.                       *)
(***************************************************************************)
\* C16: no expression-building operation mutates its receiver: after store,
\* subscripting, attribute access, a call or an overloaded operator every
\* node has exactly the fields it had before (its context is still Load
\* after store), and store(value) returns a new Assign whose single target
\* equals the receiver except for context Store and whose value is
\* to_node(value).
C16_ReceiverNotMutated ==
    /\ [][NodesKept]_vars
    /\ [](\A i \in StoreTargets :
            LET self == nodes[made[i].self]
            IN  /\ made[i].self < i
                /\ self.ctx = "Load"
                /\ nodes[i] = [self EXCEPT !.ctx = "Store"]
                /\ nodes[i + 1] = [cls |-> "Assign", targets |-> <<[ref |-> i]>>,
                                   value |-> CoerceOperand(made[i + 1].value)])

\* a.b[1].store(var.c) returned an Assign and a.b[1] is still a Load node
C16_Witness ==
    \E i \in StoreTargets :
        /\ nodes[made[i].self].cls = "Subscript"
        /\ nodes[made[i].self].ctx = "Load"
        /\ nodes[i + 1].value = LoadName("c")
        /\ ret = [ref |-> i + 1]

(***************************************************************************)
(* Assembly on the object heap (base.py 702-777): assemble() builds one    *)
(* ast.Try object with its own handlers list and the clauses of the chain  *)
(* update that object on the way back down.  An assembly on `heap` gives   *)
(* the heap it leaves behind and the reference it returns.                 *)
(***************************************************************************)
RECURSIVE assemble_object(_, _)

\* mutant of Try_assemble_object: one handlers list shared by every assembly
Try_assemble_shared_handlers(heap, self) ==
    LET lists == {k \in DOMAIN heap : heap[k].cls = "list"}
    IN  IF lists = {}
        THEN [heap |-> heap \o <<[cls |-> "list", items |-> <<>>],
                                 [cls |-> "Try", body |-> self.body,
                                  handlers |-> [ref |-> Len(heap) + 1],
                                  orelse |-> <<>>, finalbody |-> <<>>]>>,
              ref |-> Len(heap) + 2]
        ELSE [heap |-> Append(heap, [cls |-> "Try", body |-> self.body,
                                     handlers |-> [ref |-> CHOOSE k \in lists : TRUE],
                                     orelse |-> <<>>, finalbody |-> <<>>]),
              ref |-> Len(heap) + 1]

\* Try.assemble: a new ast.Try with a new, empty handlers list
Try_assemble_object(heap, self) ==
    [heap |-> heap \o <<[cls |-> "list", items |-> <<>>],
                        [cls |-> "Try", body |-> self.body,
                         handlers |-> [ref |-> Len(heap) + 1],
                         orelse |-> <<>>, finalbody |-> <<>>]>>,
     ref |-> Len(heap) + 2]

\* TryWithExcept.assemble: try_.handlers.append(handler)
TryWithExcept_assemble_object(heap, self) ==
    LET try_ == assemble_object(heap, stages[self.parent])
        handler == [cls |-> "ExceptHandler",
                    type |-> stages[self.parent].type,
                    name |-> stages[self.parent].name,
                    body |-> self.body]
    IN  [try_ EXCEPT !.heap[try_.heap[try_.ref].handlers.ref].items =
                         Append(@, handler)]

\* TryWithElse.assemble: try_.orelse = self.body
TryWithElse_assemble_object(heap, self) ==
    LET try_ == assemble_object(heap, stages[self.parent])
    IN  [try_ EXCEPT !.heap[try_.ref].orelse = self.body]

\* TryWithFinally.assemble: try_.finalbody = self.body
TryWithFinally_assemble_object(heap, self) ==
    LET try_ == assemble_object(heap, stages[self.parent])
    IN  [try_ EXCEPT !.heap[try_.ref].finalbody = self.body]

assemble_object(heap, self) ==
    IF self.cls = "Try" THEN Try_assemble_object(heap, self)
    ELSE IF self.cls \in SetupTypes
         THEN assemble_object(heap, stages[self.parent])
    ELSE IF self.cls = "TryWithExcept" THEN TryWithExcept_assemble_object(heap, self)
    ELSE IF self.cls = "TryWithElse" THEN TryWithElse_assemble_object(heap, self)
    ELSE TryWithFinally_assemble_object(heap, self)

\* the ast.Try object at heap[i], read with its handlers list
TryAt(heap, i) == [heap[i] EXCEPT !.handlers = heap[heap[i].handlers.ref].items]

\* what the call `op` on stage `self` left on the heap
Assembled(heap, op, self) ==
    [k \in 1..(Len(heap) - Len(nodes)) |-> [op |-> op, self |-> self]]

\* stage.assemble(), on the object heap
AssembleObject(self) ==
    LET try_ == assemble_object(nodes, stages[self])
    IN  /\ Len(nodes) + 2 <= MaxNodes
        /\ nodes' = try_.heap
        /\ made' = made \o Assembled(try_.heap, "assemble", self)
        /\ ret' = [ref |-> try_.ref]
        /\ UNCHANGED <<stages, hist, val>>

\* sourcify(stage): visit_TryWithFinally renders node.assemble(); the other
\* stage classes are rendered as they are
RenderStage(self) ==
    IF stages[self].cls \in {"TryWithExcept", "TryWithElse", "TryWithFinally"}
    THEN LET try_ == assemble_object(nodes, stages[self])
         IN  /\ Len(nodes) + 2 <= MaxNodes
             /\ nodes' = try_.heap
             /\ made' = made \o Assembled(try_.heap, "sourcify", self)
             /\ val' = TryAt(try_.heap, try_.ref)
             /\ ret' = sourcify(val')
             /\ UNCHANGED <<stages, hist>>
    ELSE /\ ret' = sourcify(stages[self])
         /\ UNCHANGED <<stages, hist, nodes, made, val>>

AssembledTargets == IF Len(stages) < MaxAssembled THEN Newest ELSE {}

\* one chain, assembled and rendered any number of times as it grows
NextAssemble ==
    \/ \E body \in Bodies : TrySetup_call(body)
    \/ \E self \in AssembledTargets, args \in ExceptArgs : except_(self, args)
    \/ \E self \in AssembledTargets : else_(self)
    \/ \E self \in AssembledTargets : finally_(self)
    \/ \E self \in AssembledTargets, body \in Bodies : Setup_call(self, body)
    \/ \E self \in Newest : AssembleObject(self)
    \/ \E self \in Newest : RenderStage(self)

SpecAssemble == InitTry /\ [][NextAssemble]_vars

\* the ast.Try objects on the heap
TryObjects == {i \in DOMAIN nodes : nodes[i].cls = "Try"}

\* the text the latest sourcify call returned, and the stage it rendered
JustRendered ==
    /\ made # <<>>
    /\ made[Len(made)].op = "sourcify"
    /\ ret = sourcify(val)

\* C17: assembling or rendering the same Try builder stage repeatedly is
\* repeatable: every assembly of a stage whose chain has n except_ calls
\* that were given a body is a Try with exactly n handlers, equal clause for
\* clause to every other assembly of that stage, and every render of the
\* stage gives the text of any one of its assemblies.
C17_AssemblyRepeatable ==
    /\ \A i \in TryObjects :
          /\ Len(TryAt(nodes, i).handlers) = Len(HandlerCalls(hist[made[i].self]))
          /\ \A j \in TryObjects :
                made[j].self = made[i].self => TryAt(nodes, j) = TryAt(nodes, i)
    /\ JustRendered =>
          \A i \in TryObjects :
              made[i].self = made[Len(made)].self => ret = sourcify(TryAt(nodes, i))

\* a chain with two handlers was assembled and then rendered twice: three
\* Try objects of the same stage on the heap, two handlers each
C17_Witness ==
    /\ JustRendered
    /\ Cardinality({i \in TryObjects : made[i].self = Len(stages)}) = 3
    /\ made[2].op = "assemble"
    /\ made[4].op = "sourcify"
    /\ Len(TryAt(nodes, 2).handlers) = 2

(***************************************************************************)
(* Claims about the text of class definitions.                             *)
(***************************************************************************)
\* the parenthesised argument list the claim asks for: the bases, then the
\* name=value keywords; nothing when there are neither
ClassArguments(cd) ==
    LET items == [k \in DOMAIN cd.bases |-> sourcify(cd.bases[k]).lines[1]]
                 \o [k \in DOMAIN cd.keywords |->
                        cd.keywords[k].arg \o "="
                        \o sourcify(cd.keywords[k].value).lines[1]]
    IN  IF items = <<>> THEN "" ELSE "(" \o JoinStr(", ", items) \o ")"

\* C18: every class definition renders as the header 'class Name', then,
\* when bases or keywords exist, one balanced parenthesised comma-separated
\* list of the bases and the name=value keywords, then ':', with the body
\* starting on the following line, indented one level.
C18_ClassText ==
    (Sourcified /\ val.cls = "ClassDef" /\ val.body # <<>>) =>
        ret = [lines |-> <<"class " \o val.name \o ClassArguments(val) \o ":">>
                         \o Block(val.body).lines]

====
